---- MODULE Spec2Model ----
(***************************************************************************)
(* Traffic Manager runtime (cmd/traffic/cmd/manager/manager.go, Main):     *)
(* a dgroup task group running three tasks, "httpd", "intercept-gc" and    *)
(* "systema-gc".  The systema-gc task consumes the snapshot stream of      *)
(* mgr.state.WatchIntercepts and, for each deleted intercept that carries  *)
(* an ApiKey, informs System A through the reference counted connection    *)
(* pool mgr.systema.                                                       *)
(***************************************************************************)
EXTENDS Integers, Sequences, FiniteSets

\* ------------------------------------------------------------------ bounds
MaxUpdates == 2     \* updates carried by one snapshot
MaxRefs == 2        \* references the other owners of the pool hold at once
MaxRequests == 6    \* requests the listener serves in one run

\* ------------------------------------------------------------------ values
Nil == "nil"
Err == "err"

\* update.Delete, update.Value.ApiKey, update.Value.PreviewDomain
Updates == [Delete : BOOLEAN, ApiKey : {"", "k1"}, PreviewDomain : {"", "d1"}]

RECURSIVE SeqsUpTo(_, _)
SeqsUpTo(S, n) ==
    IF n = 0 THEN {<<>>}
    ELSE LET shorter == SeqsUpTo(S, n - 1)
         IN  shorter \cup {Append(s, x) : s \in {t \in shorter : Len(t) = n - 1}, x \in S}

\* snapshot.Updates of one delivered snapshot
Snapshots == SeqsUpTo(Updates, MaxUpdates)

VARIABLES
    cancelled,   \* the group's context is Done
    firstErr,    \* the first non-nil error a task returned to the group
    waitResult,  \* "pending" until g.Wait() returns, then what it returned
    httpd,       \* "serving" | Nil | Err : position / result of the httpd task
    gc,          \* "waiting" | "tick" | Nil : position / result of intercept-gc
    ppc,         \* position of the systema-gc task
    pipeResult,  \* "running" until systema-gc returns, then what it returned
    closed,      \* the WatchIntercepts channel is closed
    pending,     \* updates of the current snapshot not yet finished; Head is current
    calls,       \* pool operations and System A calls completed for the current update
    inflight,    \* System A call issued and not yet returned, or Nil
    count,       \* mgr.systema reference count
    session,     \* mgr.systema has an established session
    req,         \* the request the httpd handler is serving, or Nil
    handled,     \* the handlers whose ServeHTTP ran for req
    served,      \* requests served so far
    start,       \* observer: the reference count when the current snapshot arrived
    nq           \* observer: qualifying updates of the current snapshot finished

vars == <<cancelled, firstErr, waitResult, httpd, gc, ppc, pipeResult,
          closed, pending, calls, inflight, count, session,
          req, handled, served, start, nq>>

groupVars == <<cancelled, firstErr, waitResult>>
pipeVars == <<ppc, pipeResult, pending, calls, inflight>>
poolVars == <<count, session>>
muxVars == <<req, handled, served>>
obsVars == <<start, nq>>
auxVars == <<muxVars, obsVars>>

\* ------------------------------------------------------- connection pool
\* mgr.systema.Get(): a failed acquire leaves the pool as it was
GetCount(c, ok) == IF ok THEN c + 1 ELSE c
GetSession(s, ok) == IF ok THEN TRUE ELSE s

\* variant: a release with no reference outstanding still decrements
DoneCountUnderflow(c) == c - 1
\* variant: every release tears the session down
DoneSessionEager(c, s) == FALSE
\* mgr.systema.Done(): an error when no reference is outstanding
DoneOk(c) == c > 0
DoneCount(c) == IF c > 0 THEN c - 1 ELSE 0
DoneSession(c, s) == IF c > 0 THEN c - 1 > 0 ELSE s

\* ------------------------------------------------------------ task group
\* variant: an error returned by a task is recorded but nothing is cancelled
GroupCancelNever(c, err) == c
\* dgroup: a task returning a non-nil error cancels the group's context
GroupCancel(c, err) == c \/ err # Nil
\* dgroup: the first non-nil error is the one kept
GroupFirstErr(f, err) == IF f = Nil THEN err ELSE f
\* variant: Wait does not wait for the systema-gc task
WaitReadyTwo(h, g, p) == h \in {Nil, Err} /\ g = Nil
\* dgroup: Wait blocks until every task started with Go has returned
WaitReady(h, g, p) == h \in {Nil, Err} /\ g = Nil /\ p # "running"
\* dgroup: what Wait returns
WaitValue(f) == f

\* a function passed to g.Go returns err to the group
TaskReturns(err) ==
    /\ cancelled' = GroupCancel(cancelled, err)
    /\ firstErr' = GroupFirstErr(firstErr, err)
    /\ UNCHANGED waitResult

\* EnableSignalHandling: a termination signal cancels the context
Signal ==
    /\ ~cancelled
    /\ cancelled' = TRUE
    /\ UNCHANGED <<firstErr, waitResult, httpd, gc, closed, pipeVars, poolVars>>
    /\ UNCHANGED auxVars

\* return g.Wait()
Wait ==
    /\ waitResult = "pending"
    /\ WaitReady(httpd, gc, pipeResult)
    /\ waitResult' = WaitValue(firstErr)
    /\ UNCHANGED <<cancelled, firstErr, httpd, gc, closed, pipeVars, poolVars>>
    /\ UNCHANGED auxVars

\* ------------------------------------------------------------------ httpd
\* return dutil.ListenAndServeHTTPWithContext(ctx, server)
HttpdResult(serveErr) == serveErr

\* the protocol version and Content-Type that select the gRPC handler
GrpcProtoMajor == 2
GrpcPrefix == <<"a", "p", "p", "l", "i", "c", "a", "t", "i", "o", "n", "/", "g", "r", "p", "c">>

\* Content-Type header values, as strings of characters; CtNone is the absent
\* header, for which r.Header.Get returns ""
CtNone == <<>>
CtGrpc == GrpcPrefix
CtGrpcProto == GrpcPrefix \o <<"+", "p", "r", "o", "t", "o">>
CtJson == SubSeq(GrpcPrefix, 1, 12) \o <<"j", "s", "o", "n">>
CtShort == SubSeq(GrpcPrefix, 1, 15)
CtLate == <<"x">> \o GrpcPrefix
CtUpper == <<"A">> \o Tail(GrpcPrefix)
ContentTypes == {CtNone, CtGrpc, CtGrpcProto, CtJson, CtShort, CtLate, CtUpper}

\* r.ProtoMajor and r.Header.Get("Content-Type") of an incoming request
Requests == [ProtoMajor : {1, 2, 3}, ContentType : ContentTypes]

\* variant: the Content-Type is compared for equality
HasPrefixEqual(s, prefix) == s = prefix
\* strings.HasPrefix
HasPrefix(s, prefix) == Len(s) >= Len(prefix) /\ SubSeq(s, 1, Len(prefix)) = prefix

\* line 49: the condition of the handler
IsGrpc(r) == r.ProtoMajor = GrpcProtoMajor /\ HasPrefix(r.ContentType, GrpcPrefix)
\* lines 49-53: the handlers whose ServeHTTP is called
Dispatch(r) == IF IsGrpc(r) THEN {"grpc"} ELSE {"http"}

\* lines 48-54: the server's handler runs for one request
MuxServe(r) ==
    /\ httpd = "serving"
    /\ served < MaxRequests
    /\ req' = r
    /\ handled' = Dispatch(r)
    /\ served' = served + 1
    /\ UNCHANGED <<groupVars, httpd, gc, closed, pipeVars, poolVars, obsVars>>

\* the listener fails (bind or serve error)
HttpdFail ==
    /\ httpd = "serving"
    /\ httpd' = HttpdResult(Err)
    /\ TaskReturns(HttpdResult(Err))
    /\ UNCHANGED <<gc, closed, pipeVars, poolVars>>
    /\ UNCHANGED auxVars

\* the listener shuts down after the context is cancelled
HttpdShutdown ==
    /\ httpd = "serving"
    /\ cancelled
    /\ httpd' = HttpdResult(Nil)
    /\ TaskReturns(HttpdResult(Nil))
    /\ UNCHANGED <<gc, closed, pipeVars, poolVars>>
    /\ UNCHANGED auxVars

\* ----------------------------------------------------------- intercept-gc
\* variant: the select has no case for ctx.Done()
GcReadyNoDone(c) == {"tick"}
\* the cases of the select that can be taken: the ticker may always have fired,
\* ctx.Done() is readable once the context is cancelled
GcReady(c) == IF c THEN {"tick", "done"} ELSE {"tick"}

\* select: case <-ticker.C
GcTick ==
    /\ gc = "waiting"
    /\ "tick" \in GcReady(cancelled)
    /\ gc' = "tick"
    /\ UNCHANGED <<groupVars, httpd, closed, pipeVars, poolVars>>
    /\ UNCHANGED auxVars

\* mgr.expire(), then back to the select
GcExpire ==
    /\ gc = "tick"
    /\ gc' = "waiting"
    /\ UNCHANGED <<groupVars, httpd, closed, pipeVars, poolVars>>
    /\ UNCHANGED auxVars

\* select: case <-ctx.Done(): return nil
\* variant: the cancellation is returned as an error
GcResultErr == Err
GcResult == Nil
GcReturn ==
    /\ gc = "waiting"
    /\ "done" \in GcReady(cancelled)
    /\ gc' = GcResult
    /\ TaskReturns(GcResult)
    /\ UNCHANGED <<httpd, closed, pipeVars, poolVars>>
    /\ UNCHANGED auxVars

\* ------------------------------------------------------------- systema-gc
\* variant: the ApiKey test is left out of the filter
QualifiesAnyDelete(u) == u.Delete
\* if update.Delete && update.Value.ApiKey != ""
Qualifies(u) == u.Delete /\ u.ApiKey # ""
\* if update.Value.PreviewDomain != ""
NeedsDomain(u) == u.PreviewDomain # ""

\* variant: the intercept is reported before the domain is removed
AfterGetInterceptFirst(ok, u) == IF ~ok THEN "doneProxy" ELSE "reapIntercept"
\* variant: the else branch runs whether or not the acquire failed
AfterGetNoElse(ok, u) == IF NeedsDomain(u) THEN "reapDomain" ELSE "reapIntercept"
\* variant: the intercept is reported only when there was a domain to remove
AfterGetDomainOnly(ok, u) ==
    IF ~ok THEN "doneProxy"
    ELSE IF NeedsDomain(u) THEN "reapDomain" ELSE "doneMgmt"
\* variant: a failed acquire is followed by both releases
AfterGetBothReleases(ok, u) ==
    IF ~ok THEN "doneMgmt"
    ELSE IF NeedsDomain(u) THEN "reapDomain" ELSE "reapIntercept"
\* variant: a failed acquire ends the loop body, as a continue would
AfterGetFailSkip(ok, u) ==
    IF ~ok THEN "next"
    ELSE IF NeedsDomain(u) THEN "reapDomain" ELSE "reapIntercept"
\* variant: a failed domain removal skips the intercept report
AfterReapDomainAbort(ok) == IF ok THEN "reapIntercept" ELSE "doneMgmt"
\* variant: the proxy release is left out
AfterDoneMgmtSkip(ok) == "next"
\* variant: the inner loop is left after the first update
RestOfBreak(updates) == <<>>

\* where control goes after each step of the loop body
AfterFilter(u) == IF Qualifies(u) THEN "get" ELSE "next"
AfterGet(ok, u) ==
    IF ~ok THEN "doneProxy"
    ELSE IF NeedsDomain(u) THEN "reapDomain" ELSE "reapIntercept"
AfterReapDomain(ok) == "reapIntercept"
\* variant: the releases are deferred to the return of the task
AfterReapInterceptDefer(ok) == "next"
\* variant: a failed report is sent again
AfterReapInterceptRetry(ok) == IF ok THEN "doneMgmt" ELSE "reapIntercept"
AfterReapIntercept(ok) == "doneMgmt"
AfterDoneMgmt(ok) == "doneProxy"
AfterDoneProxy(ok) == "next"
\* the inner range loop: the next update of the snapshot, or back to the channel
AfterUpdate(rest) == IF rest = <<>> THEN "recv" ELSE "filter"
\* the updates left once the loop body is over for the current one
RestOf(updates) == Tail(updates)

Call(op, ok) == [op |-> op, ok |-> ok]

cur == Head(pending)

\* the state store closes the WatchIntercepts channel once the context is cancelled
StreamClose ==
    /\ ~closed
    /\ cancelled
    /\ closed' = TRUE
    /\ UNCHANGED <<groupVars, httpd, gc, pipeVars, poolVars>>
    /\ UNCHANGED auxVars

\* for snapshot := range mgr.state.WatchIntercepts(ctx, nil): a snapshot arrives
PipeRecvStep(s) ==
    /\ ppc = "recv"
    /\ ~closed
    /\ pending' = s
    /\ ppc' = AfterUpdate(s)
    /\ UNCHANGED <<groupVars, httpd, gc, closed, pipeResult, calls, inflight, poolVars>>
PipeRecv(s) == PipeRecvStep(s) /\ UNCHANGED auxVars

\* line 88: the filter on the current update
PipeFilter ==
    /\ ppc = "filter"
    /\ ppc' = AfterFilter(cur)
    /\ UNCHANGED <<groupVars, httpd, gc, closed, pipeResult, pending, calls, inflight,
                   poolVars>>
    /\ UNCHANGED auxVars

\* line 89: sa, err := mgr.systema.Get()
PipeGet(ok) ==
    /\ ppc = "get"
    /\ count' = GetCount(count, ok)
    /\ session' = GetSession(session, ok)
    /\ calls' = Append(calls, Call("Get", ok))
    /\ ppc' = AfterGet(ok, cur)
    /\ UNCHANGED <<groupVars, httpd, gc, closed, pipeResult, pending, inflight>>
    /\ UNCHANGED auxVars

\* line 94: mgr.reapDomain(ctx, sa, update) is issued
PipeReapDomainCall ==
    /\ ppc = "reapDomain"
    /\ inflight = Nil
    /\ inflight' = "reapDomain"
    /\ UNCHANGED <<groupVars, httpd, gc, closed, ppc, pipeResult, pending, calls, poolVars>>
    /\ UNCHANGED auxVars

\* lines 94-97: mgr.reapDomain returns
PipeReapDomainReturn(ok) ==
    /\ ppc = "reapDomain"
    /\ inflight = "reapDomain"
    /\ inflight' = Nil
    /\ calls' = Append(calls, Call("reapDomain", ok))
    /\ ppc' = AfterReapDomain(ok)
    /\ UNCHANGED <<groupVars, httpd, gc, closed, pipeResult, pending, poolVars>>
    /\ UNCHANGED auxVars

\* line 101: mgr.reapIntercept(ctx, sa, update) is issued
PipeReapInterceptCall ==
    /\ ppc = "reapIntercept"
    /\ inflight = Nil
    /\ inflight' = "reapIntercept"
    /\ UNCHANGED <<groupVars, httpd, gc, closed, ppc, pipeResult, pending, calls, poolVars>>
    /\ UNCHANGED auxVars

\* lines 101-104: mgr.reapIntercept returns
PipeReapInterceptReturn(ok) ==
    /\ ppc = "reapIntercept"
    /\ inflight = "reapIntercept"
    /\ inflight' = Nil
    /\ calls' = Append(calls, Call("reapIntercept", ok))
    /\ ppc' = AfterReapIntercept(ok)
    /\ UNCHANGED <<groupVars, httpd, gc, closed, pipeResult, pending, poolVars>>
    /\ UNCHANGED auxVars

\* lines 107-109: release the management connection
PipeDoneMgmt ==
    /\ ppc = "doneMgmt"
    /\ count' = DoneCount(count)
    /\ session' = DoneSession(count, session)
    /\ calls' = Append(calls, Call("Done", DoneOk(count)))
    /\ ppc' = AfterDoneMgmt(DoneOk(count))
    /\ UNCHANGED <<groupVars, httpd, gc, closed, pipeResult, pending, inflight>>
    /\ UNCHANGED auxVars

\* lines 112-114: release the refcount on the proxy connection
PipeDoneProxy ==
    /\ ppc = "doneProxy"
    /\ count' = DoneCount(count)
    /\ session' = DoneSession(count, session)
    /\ calls' = Append(calls, Call("Done", DoneOk(count)))
    /\ ppc' = AfterDoneProxy(DoneOk(count))
    /\ UNCHANGED <<groupVars, httpd, gc, closed, pipeResult, pending, inflight>>
    /\ UNCHANGED auxVars

\* lines 84, 116: the loop body is over for the current update
PipeNextStep ==
    /\ ppc = "next"
    /\ pending' = RestOf(pending)
    /\ calls' = <<>>
    /\ ppc' = AfterUpdate(RestOf(pending))
    /\ UNCHANGED <<groupVars, httpd, gc, closed, pipeResult, inflight, poolVars>>
PipeNext == PipeNextStep /\ UNCHANGED auxVars

\* lines 83, 117-118: the channel is closed, the range loop ends, return nil
\* variant: the task returns an error once the loop is over
PipeResultErr == Err
PipeResult == Nil
PipeReturn ==
    /\ ppc = "recv"
    /\ closed
    /\ ppc' = "returned"
    /\ pipeResult' = PipeResult
    /\ TaskReturns(PipeResult)
    /\ UNCHANGED <<httpd, gc, closed, pending, calls, inflight, poolVars>>
    /\ UNCHANGED auxVars

\* ------------------------------------------- other owners of the pool
\* a reference taken when an intercept with a preview domain is created
OtherGet ==
    /\ count < MaxRefs
    /\ count' = GetCount(count, TRUE)
    /\ session' = GetSession(session, TRUE)
    /\ UNCHANGED <<groupVars, httpd, gc, closed, pipeVars>>
    /\ UNCHANGED auxVars

\* a reference given back by another owner
OtherDone ==
    /\ count > 0
    /\ count' = DoneCount(count)
    /\ session' = DoneSession(count, session)
    /\ UNCHANGED <<groupVars, httpd, gc, closed, pipeVars>>
    /\ UNCHANGED auxVars

\* ---------------------------------------------------------- specification
Init ==
    /\ cancelled = FALSE
    /\ firstErr = Nil
    /\ waitResult = "pending"
    /\ httpd = "serving"
    /\ gc = "waiting"
    /\ ppc = "recv"
    /\ pipeResult = "running"
    /\ closed = FALSE
    /\ pending = <<>>
    /\ calls = <<>>
    /\ inflight = Nil
    /\ count = 0
    /\ session = FALSE
    /\ req = Nil
    /\ handled = {}
    /\ served = 0
    /\ start = 0
    /\ nq = 0

\* the values the state takes
TypeOK ==
    /\ cancelled \in BOOLEAN
    /\ firstErr \in {Nil, Err}
    /\ waitResult \in {"pending", Nil, Err}
    /\ httpd \in {"serving", Nil, Err}
    /\ gc \in {"waiting", "tick", Nil}
    /\ ppc \in {"recv", "filter", "get", "reapDomain", "reapIntercept", "doneMgmt",
                "doneProxy", "next", "returned"}
    /\ pipeResult \in {"running", Nil}
    /\ closed \in BOOLEAN
    /\ Len(pending) <= MaxUpdates
    /\ \A i \in DOMAIN pending : pending[i] \in Updates
    /\ \A i \in DOMAIN calls :
          calls[i] \in [op : {"Get", "reapDomain", "reapIntercept", "Done"}, ok : BOOLEAN]
    /\ inflight \in {Nil, "reapDomain", "reapIntercept"}
    /\ count \in 0..(MaxRefs + 1)
    /\ session = (count > 0)

PipeStep ==
    \/ PipeFilter
    \/ \E ok \in BOOLEAN : PipeGet(ok)
    \/ PipeReapDomainCall
    \/ \E ok \in BOOLEAN : PipeReapDomainReturn(ok)
    \/ PipeReapInterceptCall
    \/ \E ok \in BOOLEAN : PipeReapInterceptReturn(ok)
    \/ PipeDoneMgmt
    \/ PipeDoneProxy
    \/ PipeNext

Next ==
    \/ Signal
    \/ Wait
    \/ HttpdFail
    \/ HttpdShutdown
    \/ GcTick
    \/ GcExpire
    \/ GcReturn
    \/ StreamClose
    \/ \E s \in Snapshots : PipeRecv(s)
    \/ PipeStep
    \/ PipeReturn
    \/ OtherGet
    \/ OtherDone

Spec == Init /\ [][Next]_vars

\* the scheduler runs every task, System A calls return, cancellation is observed
FairSpec ==
    /\ Spec
    /\ WF_vars(PipeStep)
    /\ WF_vars(PipeReturn)
    /\ WF_vars(StreamClose)
    /\ WF_vars(HttpdShutdown)
    /\ WF_vars(GcExpire)
    /\ SF_vars(GcReturn)
    /\ WF_vars(Wait)

\* the listener alone, serving requests
MuxNext == \E r \in Requests : MuxServe(r)
MuxSpec == Init /\ [][MuxNext]_vars

\* ------------------------------------------- who holds the references
\* the reference systema-gc holds itself: from a successful Get (line 89) to
\* its first release (line 107)
PipeRefs ==
    IF (\E i \in DOMAIN calls : calls[i].op = "Get" /\ calls[i].ok)
       /\ ~(\E i \in DOMAIN calls : calls[i].op = "Done")
    THEN 1 ELSE 0
\* the updates of a snapshot that pass the filter of line 88
NQual(s) == Cardinality({i \in DOMAIN s : Qualifies(s[i])})
\* the creation-time references that the release of line 112 is still to give
\* back for the updates of the current snapshot
Owed ==
    NQual(pending)
      - (IF pending # <<>> /\ Qualifies(cur) /\ ppc = "next" THEN 1 ELSE 0)

\* another owner gives back a reference of its own, never the one systema-gc
\* holds
OtherDoneBal ==
    /\ count > PipeRefs
    /\ OtherDone

\* systema-gc and the other owners of the pool, each releasing only what it or
\* the deleted intercepts hold
BalNext ==
    \/ \E s \in Snapshots : PipeRecv(s)
    \/ PipeStep
    \/ OtherGet
    \/ OtherDoneBal
BalSpec == Init /\ [][BalNext]_vars

\* a snapshot whose deleted intercepts each still hold their creation-time
\* reference
PipeRecvHeld(s) ==
    /\ count >= NQual(s)
    /\ PipeRecv(s)
\* another owner gives back a reference that is neither the one systema-gc
\* holds nor one held by an intercept whose deletion is being processed
OtherDoneHeld ==
    /\ count - PipeRefs > Owed
    /\ OtherDone

HeldNext ==
    \/ \E s \in Snapshots : PipeRecvHeld(s)
    \/ PipeStep
    \/ OtherGet
    \/ OtherDoneHeld
HeldSpec == Init /\ [][HeldNext]_vars

\* a snapshot arrives; the observer notes the reference count
PipeRecvSolo(s) ==
    /\ PipeRecvStep(s)
    /\ start' = count
    /\ nq' = 0
    /\ UNCHANGED muxVars
\* the loop body is over; the observer counts the update if it passed the filter
PipeNextSolo ==
    /\ PipeNextStep
    /\ nq' = nq + (IF Qualifies(cur) THEN 1 ELSE 0)
    /\ UNCHANGED <<start, muxVars>>
\* the other owners use the pool only between two snapshots
OtherGetIdle ==
    /\ ppc = "recv"
    /\ OtherGet
OtherDoneIdle ==
    /\ ppc = "recv"
    /\ OtherDone

SoloNext ==
    \/ \E s \in Snapshots : PipeRecvSolo(s)
    \/ PipeFilter
    \/ \E ok \in BOOLEAN : PipeGet(ok)
    \/ PipeReapDomainCall
    \/ \E ok \in BOOLEAN : PipeReapDomainReturn(ok)
    \/ PipeReapInterceptCall
    \/ \E ok \in BOOLEAN : PipeReapInterceptReturn(ok)
    \/ PipeDoneMgmt
    \/ PipeDoneProxy
    \/ PipeNextSolo
    \/ OtherGetIdle
    \/ OtherDoneIdle
SoloSpec == Init /\ [][SoloNext]_vars

\* ------------------------------------------------------------ properties
\* what the systema-gc task has done for the current update
HasCall(op) == \E i \in DOMAIN calls : calls[i].op = op
NCalls(op) == Cardinality({i \in DOMAIN calls : calls[i].op = op})
Failed(op) == \E i \in DOMAIN calls : calls[i].op = op /\ ~calls[i].ok
Issued(op) == HasCall(op) \/ inflight = op
NIssued(op) == NCalls(op) + (IF inflight = op THEN 1 ELSE 0)
AcquireOk == \E i \in DOMAIN calls : calls[i].op = "Get" /\ calls[i].ok
AcquireFailed == Failed("Get")
\* the current update, read from its fields
InBody == pending # <<>>
CurQualifying == InBody /\ cur.Delete /\ cur.ApiKey # ""
CurHasDomain == InBody /\ cur.PreviewDomain # ""
BodyDone == InBody /\ ppc = "next"

\* C1: for an update with Delete, an ApiKey and a PreviewDomain, reapDomain has
\* returned (with or without an error) before reapIntercept is issued
C1_DomainBeforeIntercept ==
    (CurQualifying /\ CurHasDomain) =>
        /\ inflight = "reapIntercept" => HasCall("reapDomain")
        /\ \A i \in DOMAIN calls :
              calls[i].op = "reapIntercept" =>
                  \E j \in 1..(i - 1) : calls[j].op = "reapDomain"
C1_Witness ==
    /\ CurQualifying /\ CurHasDomain
    /\ Failed("reapDomain")
    /\ inflight = "reapIntercept"

\* C2 as stated: after a failed acquire the update sees no System A call and no
\* release on the pool
C2_NoReleaseAfterFailedGet ==
    (InBody /\ AcquireFailed) =>
        /\ NIssued("reapDomain") = 0
        /\ NIssued("reapIntercept") = 0
        /\ NCalls("Done") = 0
\* C2 amended: after a failed acquire the update sees no System A call and no
\* management release, and exactly one release, the proxy release of line 112
C2_OneReleaseAfterFailedGet ==
    (InBody /\ AcquireFailed) =>
        /\ NCalls("Get") = 1
        /\ NIssued("reapDomain") = 0
        /\ NIssued("reapIntercept") = 0
        /\ ppc \in {"doneProxy", "next"}
        /\ NCalls("Done") = (IF ppc = "next" THEN 1 ELSE 0)
C2_Witness ==
    /\ BodyDone /\ CurQualifying /\ CurHasDomain
    /\ AcquireFailed
    /\ NCalls("Done") = 1

\* C3 as stated: every qualifying update ends with exactly two releases
C3_AlwaysTwoReleases ==
    (BodyDone /\ CurQualifying) => NCalls("Done") = 2
\* C3 amended: a qualifying update whose acquire succeeded ends with exactly two
\* releases, whatever reapDomain, reapIntercept and the first release returned;
\* one whose acquire failed ends with exactly one
C3_TwoReleasesAfterGet ==
    /\ NCalls("Done") <= 2
    /\ (BodyDone /\ CurQualifying) =>
           NCalls("Done") = (IF AcquireOk THEN 2 ELSE 1)
C3_Witness ==
    /\ BodyDone /\ CurQualifying
    /\ AcquireOk
    /\ Failed("reapIntercept")
    /\ Failed("Done")
    /\ NCalls("Done") = 2

\* C4: an update that is not a deletion, or carries no ApiKey, causes no
\* acquire, no release and no System A call, whatever its PreviewDomain
C4_NonQualifyingUntouched ==
    (InBody /\ ~(cur.Delete /\ cur.ApiKey # "")) =>
        /\ calls = <<>>
        /\ inflight = Nil
        /\ ppc \in {"filter", "next"}
C4_Witness ==
    /\ BodyDone
    /\ cur.Delete /\ cur.ApiKey = "" /\ cur.PreviewDomain # ""
    /\ calls = <<>>

\* the update that is current when r updates of the snapshot are left
Delivered(r) ==
    /\ Len(pending) >= r
    /\ LET u == pending[Len(pending) - r + 1] IN u.Delete /\ u.ApiKey # ""
Reported(r) ==
    /\ Len(pending) = r
    /\ Issued("reapIntercept")
    /\ CurHasDomain => HasCall("reapDomain")
NotAcquired(r) == Len(pending) = r /\ AcquireFailed

\* C5 as stated: every delivered deletion with an ApiKey is eventually reported
\* with reapIntercept (after reapDomain when it has a PreviewDomain)
C5_AlwaysReported ==
    \A r \in 1..MaxUpdates : Delivered(r) ~> Reported(r)
\* C5 amended: every delivered deletion with an ApiKey is eventually reported
\* with reapIntercept (after reapDomain when it has a PreviewDomain), unless the
\* acquire for it fails, in which case it is never reported.  The stream may
\* stay silent after any snapshot, so an update left unreported cannot be
\* excused by a later one.
C5_ReportedUnlessGetFails ==
    \A r \in 1..MaxUpdates : Delivered(r) ~> (Reported(r) \/ NotAcquired(r))
C5_Witness ==
    /\ Len(pending) = MaxUpdates
    /\ Delivered(1) /\ Delivered(MaxUpdates)
    /\ CurHasDomain
    /\ HasCall("reapDomain")
    /\ HasCall("reapIntercept")

\* C6: no failure makes the task return or lose an update: updates leave the
\* snapshot one at a time, each at the end of its own loop body, the update
\* behind a failed one is filtered like any other, a new snapshot is taken only
\* when the current one is finished, and the task returns only from the closed
\* channel
C6_FailuresContained ==
    [][/\ pending' # pending =>
              \/ ppc = "next" /\ pending' = Tail(pending)
              \/ ppc = "recv" /\ pending = <<>> /\ ~closed
       /\ ppc = "next" =>
              ppc' \in {"next", IF Len(pending) > 1 THEN "filter" ELSE "recv"}
       /\ ppc = "filter" =>
              ppc' \in {"filter", IF CurQualifying THEN "get" ELSE "next"}
       /\ (ppc' = "returned" /\ ppc # "returned") =>
              ppc = "recv" /\ closed /\ pending = <<>>
       /\ pipeResult' # pipeResult => ppc' = "returned"]_vars
C6_Witness ==
    /\ BodyDone
    /\ Len(pending) >= 2
    /\ pending[2].Delete /\ pending[2].ApiKey # ""
    /\ Failed("reapDomain")
    /\ Failed("reapIntercept")
    /\ NCalls("Done") = 2
    /\ \A i \in DOMAIN calls : calls[i].op = "Done" => ~calls[i].ok

\* C7: once the acquire for a qualifying update has succeeded, reapIntercept is
\* called exactly once, also after a failed reapDomain and also when there is
\* no PreviewDomain, in which case reapDomain is not called
C7_InterceptReportedOnce ==
    (InBody /\ AcquireOk) =>
        /\ NIssued("reapIntercept") <= 1
        /\ ppc \in {"doneMgmt", "doneProxy", "next"} => NCalls("reapIntercept") = 1
        /\ ppc = "reapIntercept" => NCalls("reapIntercept") = 0
        /\ NIssued("reapDomain") <= 1
        /\ cur.PreviewDomain = "" => NIssued("reapDomain") = 0
C7_Witness ==
    /\ InBody /\ AcquireOk
    /\ Failed("reapDomain")
    /\ NCalls("reapIntercept") = 1
    /\ ppc = "doneMgmt"
\* C8: a task that returns an error cancels the shared context, Wait returns
\* the first error recorded, and Wait returns nil only when every task
\* returned nil
C8_ErrorCancelsAndIsReturned ==
    /\ (httpd = Err \/ gc = Err \/ pipeResult = Err) => cancelled /\ firstErr = Err
    /\ firstErr = Err => (httpd = Err \/ gc = Err \/ pipeResult = Err)
    /\ waitResult # "pending" => waitResult = firstErr
    /\ waitResult = Nil => (httpd = Nil /\ gc = Nil /\ pipeResult = Nil)
C8_Witness ==
    /\ httpd = Err
    /\ gc = Nil
    /\ pipeResult = Nil
    /\ waitResult = Err

\* C9: when Wait has returned, every task started with g.Go has returned
C9_WaitAfterAllTasks ==
    waitResult # "pending" =>
        /\ httpd \in {Nil, Err}
        /\ gc \in {Nil, Err}
        /\ pipeResult \in {Nil, Err} /\ ppc = "returned"
C9_Witness ==
    /\ waitResult = Nil
    /\ cancelled
    /\ closed

\* C10: once the shared context is cancelled, every task eventually returns,
\* from wherever it was
AllTasksReturned == httpd # "serving" /\ gc \notin {"waiting", "tick"} /\ ppc = "returned"
C10_CancelledTasksReturn == cancelled ~> AllTasksReturned
C10_Witness ==
    /\ cancelled
    /\ httpd = "serving"
    /\ gc = "tick"
    /\ ppc = "reapDomain" /\ inflight = "reapDomain"
    /\ Len(pending) = MaxUpdates

\* C11: a request goes to the gRPC handler exactly when its protocol major
\* version is 2 and its Content-Type starts with "application/grpc", to the
\* plain handler otherwise, and to exactly one of the two
StartsWithGrpc(ct) ==
    /\ Len(ct) >= Len(GrpcPrefix)
    /\ \A i \in 1..Len(GrpcPrefix) : ct[i] = GrpcPrefix[i]
C11_RoutedByProtocolAndType ==
    served > 0 =>
        /\ handled \subseteq {"grpc", "http"}
        /\ Cardinality(handled) = 1
        /\ "grpc" \in handled <=> (req.ProtoMajor = 2 /\ StartsWithGrpc(req.ContentType))
C11_Witness ==
    /\ served > 1
    /\ req.ProtoMajor = 2
    /\ req.ContentType = CtGrpcProto
    /\ handled = {"grpc"}

\* the systema-gc task completes a release in this step
PipeReleases ==
    /\ Len(calls') = Len(calls) + 1
    /\ calls'[Len(calls')].op = "Done"

\* C12: the reference count is never negative, and a release made when no
\* reference is outstanding returns an error and leaves the count at zero
C12_CountNeverNegative ==
    [][ /\ count >= 0
        /\ count' >= 0
        /\ (PipeReleases /\ count = 0) =>
               (count' = 0 /\ ~calls'[Len(calls')].ok)
        /\ (PipeReleases /\ count > 0) =>
               (count' = count - 1 /\ calls'[Len(calls')].ok) ]_vars
C12_Witness ==
    /\ Failed("Done")
    /\ count = 0
    /\ ppc = "next"

\* C13: the session is torn down only by a release that brings the count to
\* zero, so while the count is above zero the session is established, also
\* when the releases of systema-gc interleave with those of other owners
C13_SessionWhileReferenced ==
    [][ /\ count > 0 => session
        /\ count' > 0 => session'
        /\ (session /\ ~session') => (count = 1 /\ count' = 0) ]_vars
C13_Witness ==
    /\ AcquireOk
    /\ NCalls("Done") = 2
    /\ ~Failed("Done")
    /\ count > 0
    /\ session

\* the systema-gc task takes a step
PipeMoves == <<ppc, pipeResult, pending, calls, inflight>>' # <<ppc, pipeResult, pending, calls, inflight>>

\* C14: systema-gc returns only once the snapshot channel is closed, what it
\* returns is always nil, and no step of it, whatever failed, cancels the
\* context or records an error with the group
C14_ReturnsNilAfterClose ==
    [][ /\ (ppc' = "returned" /\ ppc # "returned") =>
               (closed /\ ppc = "recv" /\ pipeResult' = Nil)
        /\ pipeResult' \in {"running", Nil}
        /\ (pipeResult' = Nil) = (ppc' = "returned")
        /\ PipeMoves => (cancelled' = cancelled /\ firstErr' = firstErr) ]_vars
C14_Witness ==
    /\ ppc = "returned"
    /\ closed
    /\ pipeResult = Nil
    /\ firstErr = Nil
    /\ httpd = "serving"
    /\ gc # Nil

\* everything the loop body does for the current update has completed
CurComplete ==
    /\ inflight = Nil
    /\ IF ~CurQualifying THEN calls = <<>>
       ELSE /\ NCalls("Get") = 1
            /\ IF AcquireOk
               THEN /\ NCalls("reapDomain") = (IF CurHasDomain THEN 1 ELSE 0)
                    /\ NCalls("reapIntercept") = 1
                    /\ NCalls("Done") = 2
               ELSE /\ NCalls("reapDomain") = 0
                    /\ NCalls("reapIntercept") = 0
                    /\ NCalls("Done") = 1

\* C15: updates are processed one at a time in delivery order: the acquire for
\* an update is issued only when nothing of an earlier update is outstanding,
\* an update is left only when all its operations have completed, the next one
\* is the next of the snapshot, and a snapshot is read only when the one before
\* is used up
C15_OneUpdateAtATime ==
    [][ /\ (ppc' = "get" /\ ppc # "get") =>
               (ppc = "filter" /\ calls = <<>> /\ inflight = Nil)
        /\ (pending' # pending) =>
               \/ (ppc = "recv" /\ pending = <<>> /\ calls = <<>> /\ inflight = Nil)
               \/ (ppc = "next" /\ CurComplete /\ pending' = Tail(pending))
        /\ (calls' # calls \/ inflight' # inflight) =>
               \/ (InBody /\ pending' = pending)
               \/ (ppc = "next" /\ calls' = <<>>) ]_vars
C15_Witness ==
    /\ BodyDone
    /\ Len(pending) = 2
    /\ CurQualifying
    /\ Qualifies(pending[2])
    /\ AcquireOk
    /\ NCalls("Done") = 2

\* C16: for one update the acquire is attempted at most once and each System A
\* call is made at most once, whatever failed
C16_AtMostOnce ==
    /\ NCalls("Get") <= 1
    /\ NIssued("reapDomain") <= 1
    /\ NIssued("reapIntercept") <= 1
C16_Witness ==
    /\ BodyDone
    /\ CurQualifying /\ CurHasDomain
    /\ Failed("reapDomain")
    /\ Failed("reapIntercept")
    /\ NCalls("reapDomain") = 1
    /\ NCalls("reapIntercept") = 1

\* intercept-gc calls mgr.expire() in this step
Expires == gc = "tick" /\ gc' = "waiting"
\* mgr.expire() is called only for a tick taken from the ticker, once for each
ExpireOncePerTick ==
    /\ (gc' = "tick" /\ gc # "tick") => gc = "waiting"
    /\ (gc = "tick" /\ gc' # "tick") => gc' = "waiting"
    /\ (gc' = "waiting" /\ gc # "waiting") => gc = "tick"
\* intercept-gc returns nil, without an error for the group
GcReturnsNil ==
    (gc' = Nil /\ gc # Nil) =>
        (gc = "waiting" /\ cancelled /\ firstErr' = firstErr /\ cancelled' = cancelled)

\* C17 as stated: expire is called only for a tick, once per tick, and once the
\* context is cancelled it is called no more and the task returns nil
C17_NoExpireOnceCancelled ==
    [][ /\ ExpireOncePerTick
        /\ cancelled => ~Expires
        /\ gc' \in {"waiting", "tick", Nil}
        /\ GcReturnsNil ]_vars
\* C17 amended: expire is called only for a tick, once per tick; the task
\* returns only once the context is cancelled, what it returns is nil, and
\* after it has returned expire is called no more; before it returns a tick may
\* still be served although the context is cancelled
C17_NoExpireOnceReturned ==
    [][ /\ ExpireOncePerTick
        /\ gc = Nil => (gc' = Nil /\ ~Expires)
        /\ gc' \in {"waiting", "tick", Nil}
        /\ GcReturnsNil ]_vars
C17_Witness ==
    /\ gc = Nil
    /\ cancelled
    /\ firstErr = Nil
    /\ pipeResult = "running"
    /\ httpd = "serving"

\* C18: when every deleted intercept of a snapshot still holds its
\* creation-time reference and no other owner gives it back, no release of
\* systema-gc finds the count at zero, whatever failed, a failed Get included
C18_NoReleaseFails ==
    /\ ~Failed("Done")
    /\ ppc \in {"doneMgmt", "doneProxy"} => count > 0
C18_Witness ==
    /\ BodyDone /\ CurQualifying
    /\ AcquireFailed
    /\ NCalls("Done") = 1
    /\ count = 0

\* C19: a System A call is issued only after the Get of the same update has
\* succeeded and before its first release, so that the count is at least one
\* while the call is in progress
C19_CallsHoldReference ==
    /\ (Issued("reapDomain") \/ Issued("reapIntercept")) => AcquireOk
    /\ ppc \in {"reapDomain", "reapIntercept"} => (AcquireOk /\ NCalls("Done") = 0)
    /\ inflight # Nil => (NCalls("Done") = 0 /\ count >= 1)
    /\ \A i, j \in DOMAIN calls :
          (calls[i].op \in {"reapDomain", "reapIntercept"} /\ calls[j].op = "Done") => i < j
C19_Witness ==
    /\ inflight = "reapIntercept"
    /\ Failed("reapDomain")
    /\ count = 1

\* qualifying updates of the current snapshot whose loop body is over
QualDone == nq + (IF ppc = "next" /\ CurQualifying THEN 1 ELSE 0)

\* C20: with no other owner acting meanwhile, each qualifying update lowers
\* the count by exactly one, whether its Get succeeded or failed, as long as
\* the count was at least one before it; n of them lower it by n, and the other
\* updates leave it as it was
C20_NetMinusOne ==
    (ppc \in {"filter", "next"} /\ start >= QualDone) => count = start - QualDone
C20_Witness ==
    /\ ppc = "next"
    /\ Len(pending) = 1
    /\ CurQualifying
    /\ AcquireFailed
    /\ nq = 1
    /\ start = 2
    /\ count = 0


====
